---------------------------- MODULE Spec2Model ----------------------------
(* The 2048 board engine and session controller of                        *)
(* src/mini-app/components/2048-game.tsx.                                  *)
(*                                                                         *)
(* A board is a sequence of SIZE rows, each a sequence of SIZE naturals    *)
(* (0 = empty).  Indices are 1-based here, 0-based in the source.          *)
EXTENDS Integers, Sequences, FiniteSets, TLC

VARIABLES board, score, gameOver, last,   \* the session (Game2048) and its last input
          row, merged,                    \* slideAndMerge applied to one line
          arg, call, ret                  \* a board function applied to one board

vars == <<board, score, gameOver, last, row, merged, arg, call, ret>>
sessionVars == <<board, score, gameOver, last>>
lineVars == <<row, merged>>
fnVars == <<arg, call, ret>>

---------------------------------------------------------------------------
(* Bounds of the exploration. *)

\* tiles of the enumerated input lines and boards are 2^1 .. 2^MaxExp
MaxExp == 3
\* enumerated input boards differ from a base board in at most MaxEdits cells
MaxEdits == 1
\* the session's random source picks among the first SpawnChoices empty cells
SpawnChoices == 2
\* the session is explored while no tile is larger than MaxTile: a move that
\* would make a larger tile is left out (tiles being powers of two, the cap
\* takes effect at 4, 8, 16, ...)
MaxTile == 4

---------------------------------------------------------------------------
(* Program constants and helpers. *)

SIZE == 4

Idx == 1..SIZE
Cells == Idx \X Idx
Dirs == {"up", "down", "left", "right"}

\* a function with domain 1..n as the array (tuple) it denotes
Array(f) == f \o <<>>

RECURSIVE Pow2(_)
Pow2(k) == IF k = 0 THEN 1 ELSE 2 * Pow2(k - 1)

RECURSIVE SumSeq(_)
SumSeq(s) == IF s = <<>> THEN 0 ELSE Head(s) + SumSeq(Tail(s))

\* board.flat()
Flat(b) == Array([i \in 1..(SIZE * SIZE) |-> b[((i - 1) \div SIZE) + 1][((i - 1) % SIZE) + 1]])

\* addedBoard.flat().reduce((a, b) => a + b, 0)
BoardSum(b) == SumSeq(Flat(b))

createEmptyBoard == Array([r \in Idx |-> Array([c \in Idx |-> 0])])

\* the cells in the order the nested loops over r and c visit them
CellSeq == Array([i \in 1..(SIZE * SIZE) |-> <<((i - 1) \div SIZE) + 1, ((i - 1) % SIZE) + 1>>])

\* the list `empty` built by the two loops of addRandomTile
EmptyList(b) == SelectSeq(CellSeq, LAMBDA rc : b[rc[1]][rc[2]] = 0)

\* addRandomTile drawing its cell among all cells instead of the empty ones
addRandomTileAnyCell(b, k, v) ==
  LET empty == EmptyList(b)
  IN  IF Len(empty) = 0 THEN b
      ELSE LET rc == CellSeq[k]
           IN  [b EXCEPT ![rc[1]][rc[2]] = v]

\* addRandomTile placing 1 or 2 instead of 2 or 4
addRandomTileHalved(b, k, v) ==
  LET empty == EmptyList(b)
  IN  IF Len(empty) = 0 THEN b
      ELSE LET rc == empty[k]
           IN  [b EXCEPT ![rc[1]][rc[2]] = v \div 2]

\* addRandomTile with the two draws of Math.random made explicit:
\* k is the index drawn into `empty`, v the value drawn (2 or 4)
addRandomTile(b, k, v) ==
  LET empty == EmptyList(b)
  IN  IF Len(empty) = 0 THEN b
      ELSE LET rc == empty[k]
           IN  [b EXCEPT ![rc[1]][rc[2]] = v]

\* the draws addRandomTile can make on b (k is irrelevant on a full board)
Draws(b) ==
  LET n == Len(EmptyList(b))
  IN  IF n = 0 THEN {<<1, 2>>} ELSE (1..n) \X {2, 4}

cloneBoard(b) == Array([r \in 1..Len(b) |-> Array([c \in 1..Len(b[r]) |-> b[r][c]])])

transpose(b) == Array([i \in 1..Len(b[1]) |-> Array([r \in 1..Len(b) |-> b[r][i]])])

reverseRows(b) ==
  Array([r \in 1..Len(b) |-> Array([c \in 1..Len(b[r]) |-> b[r][Len(b[r]) + 1 - c]])])

\* the for loop of slideAndMerge: i is the (1-based) loop index
RECURSIVE MergeLoop(_, _, _, _)
MergeLoop(filtered, i, skip, acc) ==
  IF i > Len(filtered) THEN acc
  ELSE IF skip THEN MergeLoop(filtered, i + 1, FALSE, acc)
  ELSE IF i + 1 <= Len(filtered) /\ filtered[i] = filtered[i + 1]
       THEN MergeLoop(filtered, i + 1, TRUE, Append(acc, filtered[i] * 2))
       ELSE MergeLoop(filtered, i + 1, FALSE, Append(acc, filtered[i]))

\* while (merged.length < SIZE) merged.push(0)
RECURSIVE PadLoop(_)
PadLoop(m) == IF Len(m) < SIZE THEN PadLoop(Append(m, 0)) ELSE m

\* the loop without the skip flag: a merged tile's partner is visited again
RECURSIVE MergeLoopNoSkip(_, _, _)
MergeLoopNoSkip(filtered, i, acc) ==
  IF i > Len(filtered) THEN acc
  ELSE IF i + 1 <= Len(filtered) /\ filtered[i] = filtered[i + 1]
       THEN MergeLoopNoSkip(filtered, i + 1, Append(acc, filtered[i] * 2))
       ELSE MergeLoopNoSkip(filtered, i + 1, Append(acc, filtered[i]))

slideAndMergeNoSkip(line) ==
  LET filtered == SelectSeq(line, LAMBDA v : v # 0)
  IN  PadLoop(MergeLoopNoSkip(filtered, 1, <<>>))

\* the loop pushing filtered[i] instead of filtered[i] * 2 on a merge
RECURSIVE MergeLoopKeep(_, _, _, _)
MergeLoopKeep(filtered, i, skip, acc) ==
  IF i > Len(filtered) THEN acc
  ELSE IF skip THEN MergeLoopKeep(filtered, i + 1, FALSE, acc)
  ELSE IF i + 1 <= Len(filtered) /\ filtered[i] = filtered[i + 1]
       THEN MergeLoopKeep(filtered, i + 1, TRUE, Append(acc, filtered[i]))
       ELSE MergeLoopKeep(filtered, i + 1, FALSE, Append(acc, filtered[i]))

slideAndMergeKeep(line) ==
  LET filtered == SelectSeq(line, LAMBDA v : v # 0)
  IN  PadLoop(MergeLoopKeep(filtered, 1, FALSE, <<>>))

slideAndMerge(line) ==
  LET filtered == SelectSeq(line, LAMBDA v : v # 0)
  IN  PadLoop(MergeLoop(filtered, 1, FALSE, <<>>))

\* the loop assigning newBoard[r] = merged before it compares: moved stays false
SlideRowsAssignFirst(nb) ==
  LET rows == Array([r \in 1..Len(nb) |-> slideAndMerge(nb[r])])
  IN  [board |-> rows,
       moved |-> \E r \in Idx : \E i \in 1..Len(rows[r]) : rows[r][i] # rows[r][i]]

\* the loop shared by the four branches of move, on the oriented board nb:
\* every row is replaced by its merge, moved is set when some row differs
SlideRows(nb) ==
  LET rows == Array([r \in 1..Len(nb) |-> slideAndMerge(nb[r])])
  IN  [board |-> rows,
       moved |-> \E r \in Idx : \E i \in 1..Len(rows[r]) : rows[r][i] # nb[r][i]]

\* move without the closing reverseRows of its "right" branch
moveNoReverseBack(b, direction) ==
  LET newBoard == cloneBoard(b)
  IN  IF direction = "up" THEN
        LET s == SlideRows(transpose(newBoard))
        IN  [board |-> transpose(s.board), moved |-> s.moved]
      ELSE IF direction = "down" THEN
        LET s == SlideRows(reverseRows(transpose(newBoard)))
        IN  [board |-> transpose(reverseRows(s.board)), moved |-> s.moved]
      ELSE IF direction = "left" THEN
        SlideRows(newBoard)
      ELSE IF direction = "right" THEN
        SlideRows(reverseRows(newBoard))
      ELSE [board |-> newBoard, moved |-> FALSE]

move(b, direction) ==
  LET newBoard == cloneBoard(b)
  IN  IF direction = "up" THEN
        LET s == SlideRows(transpose(newBoard))
        IN  [board |-> transpose(s.board), moved |-> s.moved]
      ELSE IF direction = "down" THEN
        LET s == SlideRows(reverseRows(transpose(newBoard)))
        IN  [board |-> transpose(reverseRows(s.board)), moved |-> s.moved]
      ELSE IF direction = "left" THEN
        SlideRows(newBoard)
      ELSE IF direction = "right" THEN
        LET s == SlideRows(reverseRows(newBoard))
        IN  [board |-> reverseRows(s.board), moved |-> s.moved]
      ELSE [board |-> newBoard, moved |-> FALSE]

\* the nested loops of hasMoves from cell i (row-major) on, with its early returns
RECURSIVE HasMovesFrom(_, _)
HasMovesFrom(b, i) ==
  IF i > SIZE * SIZE THEN FALSE
  ELSE LET r == ((i - 1) \div SIZE) + 1
           c == ((i - 1) % SIZE) + 1
       IN  IF b[r][c] = 0 THEN TRUE
           ELSE IF c + 1 <= SIZE /\ b[r][c] = b[r][c + 1] THEN TRUE
           ELSE IF r + 1 <= SIZE /\ b[r][c] = b[r + 1][c] THEN TRUE
           ELSE HasMovesFrom(b, i + 1)

\* hasMoves without its comparison with the cell below
RECURSIVE HasMovesRowsOnlyFrom(_, _)
HasMovesRowsOnlyFrom(b, i) ==
  IF i > SIZE * SIZE THEN FALSE
  ELSE LET r == ((i - 1) \div SIZE) + 1
           c == ((i - 1) % SIZE) + 1
       IN  IF b[r][c] = 0 THEN TRUE
           ELSE IF c + 1 <= SIZE /\ b[r][c] = b[r][c + 1] THEN TRUE
           ELSE HasMovesRowsOnlyFrom(b, i + 1)

hasMovesRowsOnly(b) == HasMovesRowsOnlyFrom(b, 1)

\* hasMoves without its test for an empty cell
RECURSIVE HasMovesNoEmptyFrom(_, _)
HasMovesNoEmptyFrom(b, i) ==
  IF i > SIZE * SIZE THEN FALSE
  ELSE LET r == ((i - 1) \div SIZE) + 1
           c == ((i - 1) % SIZE) + 1
       IN  IF c + 1 <= SIZE /\ b[r][c] = b[r][c + 1] THEN TRUE
           ELSE IF r + 1 <= SIZE /\ b[r][c] = b[r + 1][c] THEN TRUE
           ELSE HasMovesNoEmptyFrom(b, i + 1)

hasMovesNoEmptyTest(b) == HasMovesNoEmptyFrom(b, 1)

hasMoves(b) == HasMovesFrom(b, 1)

---------------------------------------------------------------------------
(* The session: Game2048 and handleMove. *)

\* useState initialisers: addRandomTile(addRandomTile(createEmptyBoard())), 0, false
SeedBoards ==
  LET first == { addRandomTile(createEmptyBoard, d[1], d[2]) :
                   d \in {x \in Draws(createEmptyBoard) : x[1] <= SpawnChoices} }
  IN  UNION { { addRandomTile(b, d[1], d[2]) :
                  d \in {x \in Draws(b) : x[1] <= SpawnChoices} } : b \in first }

NoInput == [dir |-> "none", outcome |-> "none"]

SessionIdle ==
  /\ board = createEmptyBoard
  /\ score = 0
  /\ gameOver = FALSE
  /\ last = NoInput

LineIdle == row = <<>> /\ merged = <<>>

FnIdle == arg = createEmptyBoard /\ call = "none" /\ ret = <<>>

Init ==
  /\ board \in SeedBoards
  /\ score = 0
  /\ gameOver = FALSE
  /\ last = NoInput
  /\ LineIdle
  /\ FnIdle

\* largest cell of a board
MaxCell(b) == CHOOSE v \in {b[rc[1]][rc[2]] : rc \in Cells} :
                \A rc \in Cells : b[rc[1]][rc[2]] <= v

\* handleMove testing hasMoves on the moved board, before the spawn
handleMoveCheckBeforeSpawn(direction) ==
  IF gameOver THEN
    /\ last' = [dir |-> direction, outcome |-> "over"]
    /\ UNCHANGED <<board, score, gameOver>>
  ELSE
    \E m \in {move(board, direction)} :
      IF ~m.moved THEN
        /\ last' = [dir |-> direction, outcome |-> "rejected"]
        /\ UNCHANGED <<board, score, gameOver>>
      ELSE
        /\ MaxCell(m.board) <= MaxTile
        /\ \E d \in Draws(m.board) :
             /\ d[1] <= SpawnChoices
             /\ \E addedBoard \in {addRandomTile(m.board, d[1], d[2])} :
                  \E newScore \in {BoardSum(addedBoard)} :
                    /\ board' = addedBoard
                    /\ score' = newScore
                    /\ gameOver' = IF ~hasMoves(m.board) THEN TRUE ELSE gameOver
                    /\ last' = [dir |-> direction, outcome |-> "accepted"]

\* handleMove without its return on moved = false
handleMoveNoReturn(direction) ==
  IF gameOver THEN
    /\ last' = [dir |-> direction, outcome |-> "over"]
    /\ UNCHANGED <<board, score, gameOver>>
  ELSE
    \E m \in {move(board, direction)} :
      /\ MaxCell(m.board) <= MaxTile
      /\ \E d \in Draws(m.board) :
           /\ d[1] <= SpawnChoices
           /\ \E addedBoard \in {addRandomTile(m.board, d[1], d[2])} :
                \E newScore \in {BoardSum(addedBoard)} :
                  /\ board' = addedBoard
                  /\ score' = newScore
                  /\ gameOver' = IF ~hasMoves(addedBoard) THEN TRUE ELSE gameOver
                  /\ last' = [dir |-> direction,
                              outcome |-> IF m.moved THEN "accepted" ELSE "rejected"]

\* handleMove(direction); d is the pair of draws of its addRandomTile call.
\* `last` records the input and what became of it.
handleMove(direction) ==
  IF gameOver THEN
    /\ last' = [dir |-> direction, outcome |-> "over"]
    /\ UNCHANGED <<board, score, gameOver>>
  ELSE
    \E m \in {move(board, direction)} :
      IF ~m.moved THEN
        /\ last' = [dir |-> direction, outcome |-> "rejected"]
        /\ UNCHANGED <<board, score, gameOver>>
      ELSE
        /\ MaxCell(m.board) <= MaxTile
        /\ \E d \in Draws(m.board) :
             /\ d[1] <= SpawnChoices
             /\ \E addedBoard \in {addRandomTile(m.board, d[1], d[2])} :
                  \E newScore \in {BoardSum(addedBoard)} :
                    /\ board' = addedBoard
                    /\ score' = newScore
                    /\ gameOver' = IF ~hasMoves(addedBoard) THEN TRUE ELSE gameOver
                    /\ last' = [dir |-> direction, outcome |-> "accepted"]

\* the keydown listener and the four buttons
KeyUp == handleMove("up") /\ UNCHANGED <<lineVars, fnVars>>
KeyDown == handleMove("down") /\ UNCHANGED <<lineVars, fnVars>>
KeyLeft == handleMove("left") /\ UNCHANGED <<lineVars, fnVars>>
KeyRight == handleMove("right") /\ UNCHANGED <<lineVars, fnVars>>

Next == KeyUp \/ KeyDown \/ KeyLeft \/ KeyRight

Spec == Init /\ [][Next]_vars

---------------------------------------------------------------------------
(* slideAndMerge applied to every line over the tiles 0, 2, .., 2^MaxExp. *)

Tiles0 == {0} \cup {Pow2(k) : k \in 1..MaxExp}

Lines == {Array(f) : f \in [Idx -> Tiles0]}

InitLine ==
  /\ row \in Lines
  /\ merged = <<>>
  /\ SessionIdle
  /\ FnIdle

CallSlideAndMerge ==
  /\ merged = <<>>
  /\ merged' = slideAndMerge(row)
  /\ UNCHANGED <<row, sessionVars, fnVars>>

NextLine == CallSlideAndMerge

SpecLine == InitLine /\ [][NextLine]_vars

---------------------------------------------------------------------------
(* move, hasMoves and addRandomTile applied to enumerated boards: the     *)
(* empty board, a full board without equal neighbours, a full board of    *)
(* equal columns and one of equal rows, each with up to MaxEdits cells    *)
(* overwritten.                                                           *)

Checker == Array([r \in Idx |-> Array([c \in Idx |-> IF (r + c) % 2 = 0 THEN 2 ELSE 4])])

Stripes == Array([r \in Idx |-> Array([c \in Idx |-> IF c % 2 = 1 THEN 2 ELSE 4])])

Bands == Array([r \in Idx |-> Array([c \in Idx |-> IF r % 2 = 1 THEN 2 ELSE 4])])

RECURSIVE EditsOf(_, _)
EditsOf(b, n) ==
  IF n = 0 THEN {b}
  ELSE LET prev == EditsOf(b, n - 1)
       IN  prev \cup { [x EXCEPT ![rc[1]][rc[2]] = v] :
                         x \in prev, rc \in Cells, v \in Tiles0 }

InputBoards ==
  UNION { EditsOf(base, MaxEdits) : base \in {createEmptyBoard, Checker, Stripes, Bands} }

Result(fn, direction, b, flag) == [fn |-> fn, dir |-> direction, board |-> b, flag |-> flag]

InitFn ==
  /\ arg \in InputBoards
  /\ call = "none"
  /\ ret = <<>>
  /\ SessionIdle
  /\ LineIdle

\* move(arg, d)
CallMove ==
  /\ call = "none"
  /\ \E d \in Dirs :
       LET m == move(arg, d)
       IN  /\ call' = "move"
           /\ ret' = <<Result("move", d, m.board, m.moved)>>
  /\ UNCHANGED <<arg, sessionVars, lineVars>>

\* move again, in the same direction, on the board the first move returned
CallMoveAgain ==
  /\ call = "move"
  /\ LET m == move(ret[1].board, ret[1].dir)
     IN  /\ call' = "moveAgain"
         /\ ret' = Append(ret, Result("move", ret[1].dir, m.board, m.moved))
  /\ UNCHANGED <<arg, sessionVars, lineVars>>

\* hasMoves(arg)
CallHasMoves ==
  /\ call = "none"
  /\ call' = "hasMoves"
  /\ ret' = <<Result("hasMoves", "none", arg, hasMoves(arg))>>
  /\ UNCHANGED <<arg, sessionVars, lineVars>>

\* addRandomTile(arg), any draw
CallAddRandomTile ==
  /\ call = "none"
  /\ \E d \in Draws(arg) :
       /\ call' = "addRandomTile"
       /\ ret' = <<Result("addRandomTile", "none", addRandomTile(arg, d[1], d[2]), FALSE)>>
  /\ UNCHANGED <<arg, sessionVars, lineVars>>

NextFn == CallMove \/ CallMoveAgain \/ CallHasMoves \/ CallAddRandomTile

SpecFn == InitFn /\ [][NextFn]_vars

---------------------------------------------------------------------------
(* What the properties speak of, stated on cells rather than by the code's *)
(* loops.                                                                  *)

At(b, rc) == b[rc[1]][rc[2]]

HasEmpty(b) == \E rc \in Cells : At(b, rc) = 0

TileCount(b) == Cardinality({rc \in Cells : At(b, rc) # 0})

\* two equal non-zero tiles side by side in a row
EqualInRow(b) ==
  \E r \in Idx, c \in 1..(SIZE - 1) : b[r][c] # 0 /\ b[r][c] = b[r][c + 1]

\* two equal non-zero tiles one above the other in a column
EqualInColumn(b) ==
  \E r \in 1..(SIZE - 1), c \in Idx : b[r][c] # 0 /\ b[r][c] = b[r + 1][c]

Terminal(b) == ~HasEmpty(b) /\ ~EqualInRow(b) /\ ~EqualInColumn(b)

\* the sum of the first n elements of a sequence
RECURSIVE SumTo(_, _)
SumTo(s, n) == IF n = 0 THEN 0 ELSE s[n] + SumTo(s, n - 1)

\* the sum of all cell values
Total(b) == SumTo([r \in Idx |-> SumTo(b[r], SIZE)], SIZE)

IsTile(v) == \E k \in 1..(SIZE * SIZE + 1) : v = Pow2(k)

CanMove(b) == \E d \in Dirs : move(b, d).moved

RECURSIVE Compact(_)
Compact(s) ==
  IF s = <<>> THEN <<>>
  ELSE IF Head(s) = 0 THEN Compact(Tail(s))
  ELSE <<Head(s)>> \o Compact(Tail(s))

RECURSIVE MergePairs(_)
MergePairs(s) ==
  IF Len(s) < 2 THEN s
  ELSE IF s[1] = s[2] THEN <<2 * s[1]>> \o MergePairs(Tail(Tail(s)))
  ELSE <<s[1]>> \o MergePairs(Tail(s))

ZeroPad(s) == s \o [i \in 1..(SIZE - Len(s)) |-> 0]

---------------------------------------------------------------------------
(* Properties. *)

\* C1: slideAndMerge returns the line with its zeros removed, then each
\* adjacent equal pair not consumed by an earlier merge replaced, leftmost
\* pair first, by one tile of double value, then padded with zeros to
\* length 4; with the four lines the specification lists.
C1_SlideAndMergeLine ==
  merged # <<>> =>
    /\ merged = ZeroPad(MergePairs(Compact(row)))
    /\ (row = <<2, 2, 2, 2>> => merged = <<4, 4, 0, 0>>)
    /\ (row = <<2, 2, 2, 0>> => merged = <<4, 2, 0, 0>>)
    /\ (row = <<0, 2, 0, 2>> => merged = <<4, 0, 0, 0>>)
    /\ (row = <<2, 4, 2, 4>> => merged = <<2, 4, 2, 4>>)

C1_Witness == row = <<2, 2, 2, 0>> /\ merged = <<4, 2, 0, 0>>

\* C2: the moved flag move returns is true exactly when the board it returns
\* differs from its input board in some cell.
C2_MovedIffChanged ==
  /\ call = "move" =>
       (ret[1].flag <=> \E rc \in Cells : At(ret[1].board, rc) # At(arg, rc))
  /\ call = "moveAgain" =>
       (ret[2].flag <=> \E rc \in Cells : At(ret[2].board, rc) # At(ret[1].board, rc))

C2_Witness ==
  /\ call = "move" /\ ret[1].dir = "down" /\ ret[1].flag
  /\ At(arg, <<1, 1>>) # 0 /\ At(ret[1].board, <<1, 1>>) = 0

\* C3 as stated: a second move in the same direction, with no spawn in
\* between, never moves.
C3_SecondMoveNeverMoves == call = "moveAgain" => ~ret[2].flag

\* the board has two equal non-zero tiles adjacent along the axis of direction
EqualAlong(b, direction) ==
  IF direction \in {"left", "right"} THEN EqualInRow(b) ELSE EqualInColumn(b)

\* C3 amended: a second move in the same direction, with no spawn in between,
\* moves exactly when the board the first move returned has two equal non-zero
\* tiles adjacent along the axis of the direction.
C3_SecondMoveMergesOnly ==
  call = "moveAgain" => (ret[2].flag <=> EqualAlong(ret[1].board, ret[1].dir))

C3_Witness ==
  /\ call = "moveAgain" /\ ret[1].dir = "up" /\ ret[1].flag /\ ret[2].flag
  /\ Total(ret[2].board) = Total(arg)

\* C4: hasMoves is true exactly when the board has an empty cell or two equal
\* non-zero tiles adjacent in a row or a column.
C4_HasMovesExact ==
  call = "hasMoves" =>
    (ret[1].flag <=> (HasEmpty(arg) \/ EqualInRow(arg) \/ EqualInColumn(arg)))

C4_Witness == call = "hasMoves" /\ ~ret[1].flag /\ ~HasEmpty(arg)

\* C5: in every reachable session state gameOver is true exactly when the
\* stored board, spawn included, has no empty cell and no adjacent equal pair.
C5_GameOverIffTerminal == gameOver <=> Terminal(board)

C5_Witness == gameOver /\ last.outcome = "accepted" /\ ~HasEmpty(board)

\* C6: an input whose move returns moved=false leaves board, score and
\* gameOver as they were.
C6_NoOpLeavesSession ==
  [][(last'.dir \in Dirs /\ ~move(board, last'.dir).moved)
       => (board' = board /\ score' = score /\ gameOver' = gameOver)]_vars

C6_Witness == last.outcome = "rejected" /\ ~gameOver /\ score > 0

\* C7: addRandomTile returns a full board unchanged; on any other board it
\* changes exactly one cell, an empty one, to 2 or 4, and every empty cell can
\* be the one.
C7_SpawnOneTile ==
  call = "addRandomTile" =>
    LET out == ret[1].board
        changed == {rc \in Cells : At(out, rc) # At(arg, rc)}
    IN  /\ ~HasEmpty(arg) => out = arg
        /\ HasEmpty(arg) =>
             /\ Cardinality(changed) = 1
             /\ \A rc \in changed : At(arg, rc) = 0 /\ At(out, rc) \in {2, 4}
        /\ LET outs == {addRandomTile(arg, d[1], d[2]) : d \in Draws(arg)}
           IN  \A rc \in Cells : At(arg, rc) = 0 => \E o \in outs : At(o, rc) # 0

C7_Witness == call = "addRandomTile" /\ ~HasEmpty(arg) /\ ret[1].board = arg

\* C8: move keeps the sum of the cells, in each direction; an accepted move
\* of the session adds exactly the spawned 2 or 4 to the sum of the board.
C8_SumKept ==
  /\ [](\A d \in Dirs : Total(move(board, d).board) = Total(board))
  /\ [][last'.outcome = "accepted" =>
          \A mb \in {move(board, last'.dir).board} :
            \A spawned \in {{rc \in Cells : At(board', rc) # At(mb, rc)}} :
              /\ Cardinality(spawned) = 1
              /\ \A rc \in spawned :
                   /\ At(mb, rc) = 0
                   /\ At(board', rc) \in {2, 4}
                   /\ Total(board') = Total(board) + At(board', rc)]_vars

\* after an accepted move two tiles are left only if the two seeds merged
C8_Witness == last.outcome = "accepted" /\ TileCount(board) = 2 /\ score = 8

\* C9: the stored board is always 4 by 4 with every cell 0 or a power of two
\* that is at least 2.
C9_BoardWellFormed ==
  /\ Len(board) = 4
  /\ \A r \in 1..Len(board) :
       /\ Len(board[r]) = 4
       /\ \A c \in 1..Len(board[r]) : board[r][c] = 0 \/ IsTile(board[r][c])

C9_Witness ==
  /\ last.outcome = "accepted" /\ TileCount(board) >= 9
  /\ \E rc \in Cells : At(board, rc) = 4
  /\ \E rc \in Cells : At(board, rc) = 2

\* C10: while gameOver is false some direction moves the stored board, hasMoves
\* and move agree on it, and the board an accepted move leaves has an empty
\* cell, so that the spawn adds exactly one tile.
C10_NeverStuck ==
  /\ [](~gameOver => CanMove(board))
  /\ [](hasMoves(board) <=> CanMove(board))
  /\ [][last'.outcome = "accepted" =>
          \A mb \in {move(board, last'.dir).board} :
            HasEmpty(mb) /\ TileCount(board') = TileCount(mb) + 1]_vars

C10_Witness == ~gameOver /\ ~HasEmpty(board) /\ last.outcome = "accepted"

=============================================================================
